---- MODULE Spec2Model ----
(***************************************************************************)
(* Model of validator_api/score.py: the video scoring pipeline             *)
(* (_run_video_scoring and its helpers) run by concurrently scheduled      *)
(* asyncio tasks, one per submitted batch, under the two module-level      *)
(* semaphores GPU_SEMAPHORE and DOWNLOAD_SEMAPHORE.                        *)
(*                                                                         *)
(* Scores and cosine similarities are fixed-point numbers in thousandths:  *)
(* 0.005 is 5, -5.0 is -5000, 0.95 is 950.                                 *)
(*                                                                         *)
(* An action is one run of a coroutine between two suspension points       *)
(* (an await that actually waits); everything the code does between them,  *)
(* releases of "async with" blocks included, is part of the action.        *)
(*                                                                         *)
(* Spec follows one batch through the pipeline for every input, SpecGates  *)
(* and SpecGatesFair run many batches against the two semaphores, and      *)
(* SpecNovelty runs the novelty stage (upload, index queries, compaction,  *)
(* aggregation, dataset sink) and the diagnostic get_num_unique_videos.    *)
(***************************************************************************)
EXTENDS Integers, Sequences, FiniteSets, TLC

(* ------------------------------ bounds --------------------------------- *)

\* longest submitted video_metadata sequence
MaxVideos == 3
\* largest requested count num_videos
MaxNum == 3
\* number of batches scored concurrently in the gate specification: one
\* more than the download gate admits
NumGateBatches == 6
\* longest filtered sequence of a batch in the novelty stage
MaxStageVideos == 2

(* ------------------------- program constants --------------------------- *)

DIFFERENCE_THRESHOLD == 50
SIMILARITY_THRESHOLD == 1000 - DIFFERENCE_THRESHOLD
GPU_SEMAPHORE_CAPACITY == 1
DOWNLOAD_SEMAPHORE_CAPACITY == 5
MIN_SCORE == 5
FAKE_VIDEO_PUNISHMENT == -5000

\* omega.constants
MIN_VIDEO_LENGTH == 5
MAX_VIDEO_LENGTH == 60

(* ------------------------------- values -------------------------------- *)

None == "None"
Media == "media"
NoResult == [kind |-> "none"]
NoLog == << >>

\* identifiers a miner may submit; video_utils.is_valid_id accepts the
\* ones that match the validity pattern
VideoIds == {"dQw4w9WgXcQ", "not an id"}
is_valid_id(video_id) == video_id = "dQw4w9WgXcQ"

EndTimes == {MIN_VIDEO_LENGTH - 1, MIN_VIDEO_LENGTH,
             MAX_VIDEO_LENGTH, MAX_VIDEO_LENGTH + 1}

\* VideoMetadata, without the claimed embeddings: what they are compared
\* with is the similarity the embedding model's answer has to them
VideoMetadata == [video_id : VideoIds, start_time : {0}, end_time : EndTimes]

SeqsUpTo(S, n) == UNION {[1..k -> S] : k \in 0..n}

\* Videos.video_metadata
VideoLists == SeqsUpTo(VideoMetadata, MaxVideos)

\* cosine similarity of a freshly computed embedding to the claimed one
Sims == {SIMILARITY_THRESHOLD, SIMILARITY_THRESHOLD + 1}

\* what imagebind.embed_text_async / embed_async return, as similarities
\* to the claimed embeddings of the sampled item
TextEmbeddings == [description : Sims]
FullEmbeddings == [video : Sims, audio : Sims, description : Sims]
NoEmbeddings == [none |-> TRUE]

ShortResult(score) == [kind |-> "short", score |-> score]

(* --------------------------- pure functions ---------------------------- *)

\* F.cosine_similarity(emb_1, emb_2) > SIMILARITY_THRESHOLD
is_similar(cosine) == cosine > SIMILARITY_THRESHOLD

\* mutant: the bounds of the duration filter are exclusive
metadata_check_Exclusive(metadata) ==
    SelectSeq(metadata, LAMBDA v :
        /\ v.end_time - v.start_time < MAX_VIDEO_LENGTH
        /\ v.end_time - v.start_time > MIN_VIDEO_LENGTH)

\* the duration filter
metadata_check(metadata) ==
    SelectSeq(metadata, LAMBDA v :
        /\ v.end_time - v.start_time <= MAX_VIDEO_LENGTH
        /\ v.end_time - v.start_time >= MIN_VIDEO_LENGTH)

\* mutant: the slice keeps at least one item
Truncate_KeepOne(s, n) ==
    SubSeq(s, 1, IF n = 0 THEN (IF Len(s) > 0 THEN 1 ELSE 0)
                 ELSE IF n < Len(s) THEN n ELSE Len(s))

\* the slice s[:n] for n >= 0
Truncate(s, n) == SubSeq(s, 1, IF n < Len(s) THEN n ELSE Len(s))

\* mutant: the identifiers are validated after the duration filter
HasInvalidId_AfterFilter(vs) ==
    \E i \in 1..Len(metadata_check(vs)) :
        ~is_valid_id(metadata_check(vs)[i].video_id)

\* any(not video_utils.is_valid_id(video.video_id)
\*     for video in videos.video_metadata)
HasInvalidId(vs) == \E i \in 1..Len(vs) : ~is_valid_id(vs[i].video_id)

\* mutant: the drawn candidate is read but stays in the list
Pop_Keep(s, idx) == s

\* list.pop(idx) leaves the other elements in order
Pop(s, idx) == SubSeq(s, 1, idx - 1) \o SubSeq(s, idx + 1, Len(s))

\* the positions 1..n as a list: the shallow copy of the filtered metadata
Positions(n) == [i \in 1..n |-> i]

(* ------------------------------- state --------------------------------- *)

VARIABLES
    pc,               \* where each batch's coroutine is suspended
    videos,           \* Videos.video_metadata as submitted
    num_videos,       \* Videos.num_videos
    is_check_only,    \* dry-run pass or mutating pass
    metadata,         \* the filtered and truncated metadata
    check_video,      \* outcome of the CHECK_PROBABILITY draw
    metadata_copy,    \* get_random_video: candidates not drawn yet
    random_metadata,  \* get_random_video: position of the current candidate
    random_video,     \* get_random_video: the fetched media or None
    fetchLog,         \* the download attempts made, with their outcomes
    fresh,            \* what the embedding model returned in random_check
    calls,            \* number of embedding, index and sink calls made
    holding,          \* the gates each batch holds a slot of
    GPU_SEMAPHORE,        \* free slots of the embedding-compute gate
    DOWNLOAD_SEMAPHORE,   \* free slots of the download gate
    result,           \* what _run_video_scoring returned
    exc,              \* the exception _run_video_scoring ended with
    query_emb,        \* _run_video_scoring: the embedding of videos.query
    embeddings,       \* the Embeddings of the filtered items
    video_ids,        \* the identifiers upload_to_pinecone returned
    novelty_scores,   \* compute_novelty_score: the answers gathered so far
    PINECONE_INDEX,   \* the entries of the vector index
    dataset_uploader  \* the add_videos calls the dataset sink received

inputVars == <<videos, num_videos, is_check_only, metadata, check_video>>
sampleVars == <<metadata_copy, random_metadata, random_video>>
gateVars == <<holding, GPU_SEMAPHORE, DOWNLOAD_SEMAPHORE>>
stageVars == <<query_emb, embeddings, video_ids, novelty_scores,
               PINECONE_INDEX, dataset_uploader>>
vars == <<pc, inputVars, sampleVars, fetchLog, fresh, calls, gateVars,
          result, exc, stageVars>>

Batches == DOMAIN pc

NoCalls == [embed |-> 0, query |-> 0, upsert |-> 0, add_videos |-> 0]

InitFor(B) ==
    /\ pc = [b \in B |-> "start"]
    /\ videos = [b \in B |-> << >>]
    /\ num_videos = [b \in B |-> 0]
    /\ is_check_only = [b \in B |-> FALSE]
    /\ metadata = [b \in B |-> << >>]
    /\ check_video = [b \in B |-> FALSE]
    /\ metadata_copy = [b \in B |-> << >>]
    /\ random_metadata = [b \in B |-> 0]
    /\ random_video = [b \in B |-> None]
    /\ fetchLog = [b \in B |-> NoLog]
    /\ fresh = [b \in B |-> NoEmbeddings]
    /\ calls = [b \in B |-> NoCalls]
    /\ holding = [b \in B |-> {}]
    /\ GPU_SEMAPHORE = GPU_SEMAPHORE_CAPACITY
    /\ DOWNLOAD_SEMAPHORE = DOWNLOAD_SEMAPHORE_CAPACITY
    /\ result = [b \in B |-> NoResult]
    /\ exc = [b \in B |-> None]
    /\ query_emb = [b \in B |-> None]
    /\ embeddings = [b \in B |-> NoEmbeddings]
    /\ video_ids = [b \in B |-> << >>]
    /\ novelty_scores = [b \in B |-> << >>]
    /\ PINECONE_INDEX = {}
    /\ dataset_uploader = << >>

\* The pipeline specification follows one batch through every input and
\* every outcome of its external calls.  Batches share nothing but the two
\* gates; the gate specification below runs NumGateBatches of them.
Init == InitFor({1})

(* ------------------------------ helpers -------------------------------- *)

\* return {"score": score}
Return(b, score) ==
    /\ pc' = [pc EXCEPT ![b] = "done"]
    /\ result' = [result EXCEPT ![b] = ShortResult(score)]
    /\ exc' = exc

\* an exception nobody catches leaves _run_video_scoring
Raise(b, e) ==
    /\ pc' = [pc EXCEPT ![b] = "raised"]
    /\ exc' = [exc EXCEPT ![b] = e]
    /\ result' = result

Goto(b, label) ==
    /\ pc' = [pc EXCEPT ![b] = label]
    /\ UNCHANGED <<result, exc>>

\* idx = random.randint(0, len(metadata_copy) - 1);
\* random_metadata = metadata_copy.pop(idx); then on to the download gate
DrawCandidate(b, copy) ==
    \E idx \in 1..Len(copy) :
        /\ random_metadata' = [random_metadata EXCEPT ![b] = copy[idx]]
        /\ metadata_copy' = [metadata_copy EXCEPT ![b] = Pop(copy, idx)]
        /\ random_video' = random_video
        /\ Goto(b, "dl_wait")

\* get_random_video returns (random_metadata, None):
\* _run_video_scoring goes on to the embedding-compute gate
ReturnDescriptionOnly(b) ==
    /\ UNCHANGED sampleVars
    /\ Goto(b, "gpu_wait")

\* the head of "while random_video is None and len(metadata_copy) > 0"
\* when random_video is None, and the fall back after the loop
NextCandidate(b) ==
    IF Len(metadata_copy[b]) > 0
    THEN DrawCandidate(b, metadata_copy[b])
    ELSE ReturnDescriptionOnly(b)

SetOutcome(b, outcome) ==
    fetchLog' = [fetchLog EXCEPT ![b][Len(fetchLog[b])].outcome = outcome]

\* mutant: leaving the guarded fetch keeps the slot
ReleaseDownload_Leak(b) ==
    UNCHANGED <<DOWNLOAD_SEMAPHORE, holding, GPU_SEMAPHORE>>

\* leaving "async with DOWNLOAD_SEMAPHORE", by return, continue or exception
ReleaseDownload(b) ==
    /\ DOWNLOAD_SEMAPHORE' = DOWNLOAD_SEMAPHORE + 1
    /\ holding' = [holding EXCEPT ![b] = @ \ {"download"}]
    /\ GPU_SEMAPHORE' = GPU_SEMAPHORE

ReleaseGPU(b) ==
    /\ GPU_SEMAPHORE' = GPU_SEMAPHORE + 1
    /\ holding' = [holding EXCEPT ![b] = @ \ {"gpu"}]
    /\ DOWNLOAD_SEMAPHORE' = DOWNLOAD_SEMAPHORE

(* ------------------------------ actions -------------------------------- *)

\* _run_video_scoring from its call to its first suspension point
run_video_scoring(b, vs, n, dry, cv) ==
    /\ pc[b] = "start"
    /\ videos' = [videos EXCEPT ![b] = vs]
    /\ num_videos' = [num_videos EXCEPT ![b] = n]
    /\ is_check_only' = [is_check_only EXCEPT ![b] = dry]
    /\ UNCHANGED <<stageVars, fetchLog, fresh, calls, gateVars>>
    /\ IF HasInvalidId(vs)
       THEN /\ Return(b, FAKE_VIDEO_PUNISHMENT)
            /\ UNCHANGED <<metadata, check_video, sampleVars>>
       ELSE LET filtered == Truncate(metadata_check(vs), n) IN
            /\ metadata' = [metadata EXCEPT ![b] = filtered]
            /\ IF Len(filtered) = 0
               THEN /\ Return(b, MIN_SCORE)
                    /\ UNCHANGED <<check_video, sampleVars>>
               ELSE /\ check_video' = [check_video EXCEPT ![b] = cv]
                    /\ IF cv
                       THEN DrawCandidate(b, Positions(Len(filtered)))
                       ELSE \E choice \in 1..Len(filtered) :
                               /\ random_metadata' =
                                    [random_metadata EXCEPT ![b] = choice]
                               /\ UNCHANGED <<metadata_copy, random_video>>
                               /\ Goto(b, "gpu_wait")

\* mutant: the fetch starts without waiting for a free slot
AcquireDownload_NoWait(b) ==
    /\ pc[b] = "dl_wait"
    /\ DOWNLOAD_SEMAPHORE' = DOWNLOAD_SEMAPHORE - 1
    /\ holding' = [holding EXCEPT ![b] = @ \cup {"download"}]
    /\ fetchLog' = [fetchLog EXCEPT ![b] =
            Append(@, [cand |-> random_metadata[b], outcome |-> "inflight"])]
    /\ Goto(b, "downloading")
    /\ UNCHANGED <<stageVars,
                   inputVars, sampleVars, fresh, calls, GPU_SEMAPHORE>>

\* async with DOWNLOAD_SEMAPHORE: the fetch starts once a slot is taken
AcquireDownload(b) ==
    /\ pc[b] = "dl_wait"
    /\ DOWNLOAD_SEMAPHORE > 0
    /\ DOWNLOAD_SEMAPHORE' = DOWNLOAD_SEMAPHORE - 1
    /\ holding' = [holding EXCEPT ![b] = @ \cup {"download"}]
    /\ fetchLog' = [fetchLog EXCEPT ![b] =
            Append(@, [cand |-> random_metadata[b], outcome |-> "inflight"])]
    /\ Goto(b, "downloading")
    /\ UNCHANGED <<stageVars,
                   inputVars, sampleVars, fresh, calls, GPU_SEMAPHORE>>

\* download_video returned the media
FetchSucceeds(b) ==
    /\ pc[b] = "downloading"
    /\ ReleaseDownload(b)
    /\ SetOutcome(b, "ok")
    /\ random_video' = [random_video EXCEPT ![b] = Media]
    /\ UNCHANGED <<metadata_copy, random_metadata>>
    /\ Goto(b, "gpu_wait")
    /\ UNCHANGED <<stageVars, inputVars, fresh, calls>>

\* mutant: a block is handled like a timeout
FetchBlocked_Continue(b) ==
    /\ pc[b] = "downloading"
    /\ ReleaseDownload(b)
    /\ SetOutcome(b, "blocked")
    /\ NextCandidate(b)
    /\ UNCHANGED <<stageVars, inputVars, fresh, calls>>

\* except video_utils.IPBlockedException: return random_metadata, None
FetchBlocked(b) ==
    /\ pc[b] = "downloading"
    /\ ReleaseDownload(b)
    /\ SetOutcome(b, "blocked")
    /\ ReturnDescriptionOnly(b)
    /\ UNCHANGED <<stageVars, inputVars, fresh, calls>>

\* mutant: a fake video is handled like a timeout
FetchFake_Continue(b) ==
    /\ pc[b] = "downloading"
    /\ ReleaseDownload(b)
    /\ SetOutcome(b, "fake")
    /\ NextCandidate(b)
    /\ UNCHANGED <<stageVars, inputVars, fresh, calls>>

\* except video_utils.FakeVideoException: return None, and the caller
\* returns the punishment
FetchFake(b) ==
    /\ pc[b] = "downloading"
    /\ ReleaseDownload(b)
    /\ SetOutcome(b, "fake")
    /\ Return(b, FAKE_VIDEO_PUNISHMENT)
    /\ UNCHANGED <<stageVars, inputVars, sampleVars, fresh, calls>>

\* except asyncio.TimeoutError: continue
FetchTimeout(b) ==
    /\ pc[b] = "downloading"
    /\ ReleaseDownload(b)
    /\ SetOutcome(b, "timeout")
    /\ NextCandidate(b)
    /\ UNCHANGED <<stageVars, inputVars, fresh, calls>>

\* download_video returned None: random_video stays None and the loop
\* goes round again
FetchReturnsNone(b) ==
    /\ pc[b] = "downloading"
    /\ ReleaseDownload(b)
    /\ SetOutcome(b, "none")
    /\ NextCandidate(b)
    /\ UNCHANGED <<stageVars, inputVars, fresh, calls>>

\* download_video raised something else: no except clause matches
FetchRaisesOther(b) ==
    /\ pc[b] = "downloading"
    /\ ReleaseDownload(b)
    /\ SetOutcome(b, "other")
    /\ Raise(b, "FetchError")
    /\ UNCHANGED <<stageVars, inputVars, sampleVars, fresh, calls>>

\* mutant: random_check starts without waiting for the slot
AcquireGPU_NoWait(b) ==
    /\ pc[b] = "gpu_wait"
    /\ GPU_SEMAPHORE' = GPU_SEMAPHORE - 1
    /\ holding' = [holding EXCEPT ![b] = @ \cup {"gpu"}]
    /\ calls' = [calls EXCEPT ![b].embed = @ + 1]
    /\ Goto(b, "embedding")
    /\ UNCHANGED <<stageVars, inputVars, sampleVars, fetchLog, fresh,
                   DOWNLOAD_SEMAPHORE>>

\* async with GPU_SEMAPHORE: random_check starts and awaits the embedding
AcquireGPU(b) ==
    /\ pc[b] = "gpu_wait"
    /\ GPU_SEMAPHORE > 0
    /\ GPU_SEMAPHORE' = GPU_SEMAPHORE - 1
    /\ holding' = [holding EXCEPT ![b] = @ \cup {"gpu"}]
    /\ calls' = [calls EXCEPT ![b].embed = @ + 1]
    /\ Goto(b, "embedding")
    /\ UNCHANGED <<stageVars, inputVars, sampleVars, fetchLog, fresh,
                   DOWNLOAD_SEMAPHORE>>

\* random_check after the embedding model answered.  is_similar and
\* strict_is_similar are assigned in random_check, so they are local names
\* of it: reading is_similar before any assignment raises
\* UnboundLocalError, on the description-only branch and on the full
\* branch alike.  The exception leaves the "async with" block, which
\* releases the slot.
random_check(b, fresh_embeddings) ==
    /\ pc[b] = "embedding"
    /\ fresh' = [fresh EXCEPT ![b] = fresh_embeddings]
    /\ ReleaseGPU(b)
    /\ Raise(b, "UnboundLocalError")
    /\ UNCHANGED <<stageVars, inputVars, sampleVars, fetchLog, calls>>

EmbedReturns(b) ==
    IF random_video[b] = None
    THEN \E e \in TextEmbeddings : random_check(b, e)
    ELSE \E e \in FullEmbeddings : random_check(b, e)

\* a caller submits a batch: score_and_upload_videos (mutating) or
\* score_videos_for_testing (dry run)
Submit(b) ==
    /\ pc[b] = "start"
    /\ \E vs \in VideoLists, n \in 0..MaxNum, dry \in BOOLEAN,
          cv \in BOOLEAN :
            run_video_scoring(b, vs, n, dry, cv)

Next ==
    \/ \E b \in Batches : Submit(b)
    \/ \E b \in Batches : AcquireDownload(b)
    \/ \E b \in Batches : FetchSucceeds(b)
    \/ \E b \in Batches : FetchBlocked(b)
    \/ \E b \in Batches : FetchFake(b)
    \/ \E b \in Batches : FetchTimeout(b)
    \/ \E b \in Batches : FetchReturnsNone(b)
    \/ \E b \in Batches : FetchRaisesOther(b)
    \/ \E b \in Batches : AcquireGPU(b)
    \/ \E b \in Batches : EmbedReturns(b)

Spec == Init /\ [][Next]_vars

(* ------------------------- gate specification -------------------------- *)

\* NumGateBatches mutating batches of one valid video each, all audited by
\* download; every fetch times out and the embedding model returns a
\* matching description embedding.
GateVideo == [video_id |-> "dQw4w9WgXcQ", start_time |-> 0,
              end_time |-> MIN_VIDEO_LENGTH]

InitGates == InitFor(1..NumGateBatches)

SubmitGate(b) == run_video_scoring(b, <<GateVideo>>, 1, FALSE, TRUE)

EmbedReturnsGate(b) ==
    IF random_video[b] = None
    THEN random_check(b, [description |-> SIMILARITY_THRESHOLD + 1])
    ELSE random_check(b, [video |-> SIMILARITY_THRESHOLD + 1,
                          audio |-> SIMILARITY_THRESHOLD + 1,
                          description |-> SIMILARITY_THRESHOLD + 1])

NextGates ==
    \/ \E b \in Batches : SubmitGate(b)
    \/ \E b \in Batches : AcquireDownload(b)
    \/ \E b \in Batches : FetchTimeout(b)
    \/ \E b \in Batches : AcquireGPU(b)
    \/ \E b \in Batches : EmbedReturnsGate(b)

SpecGates == InitGates /\ [][NextGates]_vars

\* The gate specification with every exit of the guarded fetch, under fair
\* scheduling.  The fetch of the first batch may end in any of the six
\* ways, the fetches of the other batches time out.  Fairness: the event
\* loop keeps running a coroutine that is ready, a fetch ends within
\* VIDEO_DOWNLOAD_TIMEOUT and the embedding call returns, so some enabled
\* step of some batch is always taken in the end.
FirstBatch == CHOOSE b \in 1..NumGateBatches : \A c \in 1..NumGateBatches : b <= c

NextGatesFair ==
    \/ \E b \in Batches : SubmitGate(b)
    \/ \E b \in Batches : AcquireDownload(b)
    \/ \E b \in {FirstBatch} : FetchSucceeds(b)
    \/ \E b \in {FirstBatch} : FetchBlocked(b)
    \/ \E b \in {FirstBatch} : FetchFake(b)
    \/ \E b \in Batches : FetchTimeout(b)
    \/ \E b \in {FirstBatch} : FetchReturnsNone(b)
    \/ \E b \in {FirstBatch} : FetchRaisesOther(b)
    \/ \E b \in Batches : AcquireGPU(b)
    \/ \E b \in Batches : EmbedReturnsGate(b)

FairGates == WF_vars(NextGatesFair)

SpecGatesFair == InitGates /\ [][NextGatesFair]_vars /\ FairGates

(* --------------------------- novelty stage ----------------------------- *)

\* Lines 210-261 of _run_video_scoring, with compute_novelty_score,
\* query_pinecone, upload_to_pinecone and filter_embeddings, and the
\* diagnostic get_num_unique_videos.  random_check raises on every call, so
\* no batch of the pipeline specification gets past line 205; the stage is
\* therefore run from its own initial states: the state of a batch at line
\* 210, for every filtered sequence of up to MaxStageVideos items, every
\* requested count, both kinds of pass and several contents of the index.

\* Embedding vectors are named; Cos is their cosine similarity in
\* thousandths.  With e1..e6 orthonormal: a = e1, c = e3,
\* a1 = 0.951 e1 - 0.309 e2, a2 = 0.95 e1 + 0.312 e2 (videos),
\* o = 0.4 e1 + 0.4 e3 + 0.825 e4 (an older index entry),
\* d = 0.5 e1 + 0.3 e3 + 0.812 e5 (the descriptions),
\* q = 0.2 e1 + 0.4 e3 + 0.894 e6 (the query), s the audio.
VideoVectors == {"a", "a1", "a2", "c"}

Cos(x, y) ==
    IF x = y THEN 1000
    ELSE LET p == {x, y} IN
         CASE p = {"a", "a1"} -> 951
           [] p = {"a", "a2"} -> 950
           [] p = {"a1", "a2"} -> 807
           [] p = {"a", "o"} -> 400
           [] p = {"a1", "o"} -> 380
           [] p = {"a2", "o"} -> 380
           [] p = {"c", "o"} -> 400
           [] p = {"a", "d"} -> 500
           [] p = {"a1", "d"} -> 476
           [] p = {"a2", "d"} -> 475
           [] p = {"c", "d"} -> 300
           [] p = {"a", "q"} -> 200
           [] p = {"a1", "q"} -> 190
           [] p = {"a2", "q"} -> 190
           [] p = {"c", "q"} -> 400
           [] OTHER -> 0

\* the items of a batch that passed the identifier check and the filter
StageItems ==
    [video_id : {"dQw4w9WgXcQ"}, start_time : {0},
     end_time : {MIN_VIDEO_LENGTH}, video_emb : VideoVectors,
     audio_emb : {"s"}, description_emb : {"d"}]

StageLists == SeqsUpTo(StageItems, MaxStageVideos) \ {<< >>}

\* str(uuid.uuid4()): an identifier nobody else has
uuid4(b, i) == [batch |-> b, item |-> i]

\* entries the index may hold before the batches run
OldEntries ==
    {[id |-> [batch |-> 0, item |-> 1], values |-> "o"],
     [id |-> [batch |-> 0, item |-> 2], values |-> "a"]}

\* the batch whose inputs are drawn, and a concurrent mutating pass of one
\* item with video vector a
Drawn == 1
Writer == 2

RECURSIVE SumSeq(_)
SumSeq(s) == IF s = << >> THEN 0 ELSE Head(s) + SumSeq(Tail(s))

\* [x for x, too_similar in zip(s, too) if not too_similar]
RECURSIVE Compact(_, _)
Compact(s, too) ==
    IF s = << >> \/ too = << >> THEN << >>
    ELSE (IF Head(too) THEN << >> ELSE <<Head(s)>>)
         \o Compact(Tail(s), Tail(too))

\* Embeddings(video=..., audio=..., description=...) of a metadata list
Embeddings(md) ==
    [video |-> [i \in 1..Len(md) |-> md[i].video_emb],
     audio |-> [i \in 1..Len(md) |-> md[i].audio_emb],
     description |-> [i \in 1..Len(md) |-> md[i].description_emb]]

filter_embeddings(embs, too) ==
    [video |-> Compact(embs.video, too),
     audio |-> Compact(embs.audio, too),
     description |-> Compact(embs.description, too)]

\* len(response["matches"]) of a query with the given top_k
NumMatches(index, top_k) ==
    IF Cardinality(index) < top_k THEN Cardinality(index) ELSE top_k

\* response["matches"][n]["score"]: matches come in descending score
NthScore(index, vector, n) ==
    CHOOSE sc \in {Cos(e.values, vector) : e \in index} :
        /\ Cardinality({e \in index : Cos(e.values, vector) > sc}) <= n
        /\ Cardinality({e \in index : Cos(e.values, vector) >= sc}) > n

\* what query_pinecone returns when the selected match exists
query_pinecone(index, vector, select_idx) ==
    1000 - NthScore(index, vector, select_idx)

\* mutant: a novelty equal to the threshold is flagged too
IsTooSimilar_Inclusive(score) == score <= DIFFERENCE_THRESHOLD

\* score < DIFFERENCE_THRESHOLD
IsTooSimilar(score) == score < DIFFERENCE_THRESHOLD

\* mutant: the total is averaged over the surviving items
AggregateScore_Survivors(desc, qry, nov, n) ==
    [num |-> SumSeq(desc) + SumSeq(qry) + nov, den |-> 3 * Len(desc)]

\* (sum(description_relevance_scores) + sum(query_relevance_scores)
\*  + novelty_score) / 3 / videos.num_videos, as an exact fraction
AggregateScore(desc, qry, nov, n) ==
    [num |-> SumSeq(desc) + SumSeq(qry) + nov, den |-> 3 * n]

FracLess(x, y) == x.num * y.den < y.num * x.den

\* max(score, MIN_SCORE)
MaxScore(score, floor) ==
    IF FracLess(score, [num |-> floor, den |-> 1])
    THEN [num |-> floor, den |-> 1]
    ELSE score

\* mutant: a dry run writes to the index as well
ShouldUpload_Always(dry) == TRUE

\* if not is_check_only
ShouldUpload(dry) == ~dry

\* mutant: the identifiers are not compacted with the metadata
CompactIds_Keep(ids, too) == ids

\* [video_id for video_id, too_similar in zip(video_ids, is_too_similar)
\*  if not too_similar]
CompactIds(ids, too) == Compact(ids, too)

StageUnchanged ==
    UNCHANGED <<videos, num_videos, is_check_only, check_video, sampleVars,
                fetchLog, fresh, gateVars, query_emb>>

InitNovelty ==
    \E ms \in StageLists, n \in 1..MaxNum, dry \in BOOLEAN,
       count \in BOOLEAN, index \in SUBSET OldEntries :
        LET B == {Drawn, Writer}
            one == <<CHOOSE v \in StageItems : v.video_emb = "a">>
        IN  /\ Len(ms) <= n
            /\ count => dry
            /\ pc = [b \in B |-> IF b = Drawn /\ count THEN "count"
                                 ELSE "novelty"]
            /\ videos = [b \in B |-> IF b = Drawn THEN ms ELSE one]
            /\ metadata = [b \in B |-> IF b = Drawn THEN ms ELSE one]
            /\ num_videos = [b \in B |-> IF b = Drawn THEN n ELSE 1]
            /\ is_check_only = [b \in B |-> b = Drawn /\ dry]
            /\ check_video = [b \in B |-> FALSE]
            /\ metadata_copy = [b \in B |-> << >>]
            /\ random_metadata = [b \in B |-> 1]
            /\ random_video = [b \in B |-> None]
            /\ fetchLog = [b \in B |-> NoLog]
            /\ fresh = [b \in B |-> NoEmbeddings]
            /\ calls = [b \in B |-> [NoCalls EXCEPT !.embed = 2]]
            /\ holding = [b \in B |-> {}]
            /\ GPU_SEMAPHORE = GPU_SEMAPHORE_CAPACITY
            /\ DOWNLOAD_SEMAPHORE = DOWNLOAD_SEMAPHORE_CAPACITY
            /\ result = [b \in B |-> NoResult]
            /\ exc = [b \in B |-> None]
            /\ query_emb = [b \in B |-> "q"]
            /\ embeddings = [b \in B |-> NoEmbeddings]
            /\ video_ids = [b \in B |-> << >>]
            /\ novelty_scores = [b \in B |-> << >>]
            /\ PINECONE_INDEX = index
            /\ dataset_uploader = << >>

\* upload_to_pinecone: the identifiers are generated locally, the upsert
\* writes all vectors or raises, and the exception is swallowed
upload_to_pinecone(b, embs, md) ==
    LET ids == [i \in 1..Len(md) |-> uuid4(b, i)]
        vectors == {[id |-> ids[i], values |-> embs.video[i]] :
                        i \in 1..Len(md)}
    IN  /\ video_ids' = [video_ids EXCEPT ![b] = ids]
        /\ calls' = [calls EXCEPT ![b].upsert = @ + 1]
        /\ \/ PINECONE_INDEX' = PINECONE_INDEX \cup vectors
           \/ PINECONE_INDEX' = PINECONE_INDEX

\* lines 210-219: the embeddings are stacked, a mutating pass uploads them,
\* and compute_novelty_score sends its queries
StartNovelty(b) ==
    /\ pc[b] = "novelty"
    /\ embeddings' = [embeddings EXCEPT ![b] = Embeddings(metadata[b])]
    /\ IF ShouldUpload(is_check_only[b])
       THEN upload_to_pinecone(b, Embeddings(metadata[b]), metadata[b])
       ELSE UNCHANGED <<video_ids, calls, PINECONE_INDEX>>
    /\ Goto(b, "querying")
    /\ StageUnchanged
    /\ UNCHANGED <<metadata, novelty_scores, dataset_uploader>>

\* get_num_unique_videos up to the queries of compute_novelty_score
get_num_unique_videos(b) ==
    /\ pc[b] = "count"
    /\ embeddings' = [embeddings EXCEPT ![b] = Embeddings(videos[b])]
    /\ Goto(b, "counting")
    /\ StageUnchanged
    /\ UNCHANGED <<metadata, video_ids, calls, novelty_scores,
                   PINECONE_INDEX, dataset_uploader>>

\* one query_pinecone of the gather is answered by the index: the answers
\* come in any order; an answer with too few matches raises IndexError
QueryAnswered(b) ==
    /\ pc[b] \in {"querying", "counting"}
    /\ \E i \in (1..Len(embeddings[b].video)) \ DOMAIN novelty_scores[b] :
        LET already_uploaded == pc[b] = "querying" /\ ~is_check_only[b]
            top_k == IF already_uploaded THEN 2 ELSE 1
            select_idx == IF already_uploaded THEN 1 ELSE 0
        IN  IF select_idx < NumMatches(PINECONE_INDEX, top_k)
            THEN /\ novelty_scores' = [novelty_scores EXCEPT ![b] =
                        (i :> query_pinecone(PINECONE_INDEX,
                                embeddings[b].video[i], select_idx)) @@ @]
                 /\ Goto(b, pc[b])
            ELSE /\ Raise(b, "IndexError")
                 /\ UNCHANGED novelty_scores
    /\ calls' = [calls EXCEPT ![b].query = @ + 1]
    /\ StageUnchanged
    /\ UNCHANGED <<metadata, embeddings, video_ids, PINECONE_INDEX,
                   dataset_uploader>>

\* get_num_unique_videos after the gather: the number of unflagged items
CountReturns(b) ==
    /\ pc[b] = "counting"
    /\ DOMAIN novelty_scores[b] = 1..Len(embeddings[b].video)
    /\ LET too == [i \in DOMAIN novelty_scores[b] |->
                        IsTooSimilar(novelty_scores[b][i])]
       IN  result' = [result EXCEPT ![b] =
                [kind |-> "count",
                 count |-> Cardinality({i \in DOMAIN too : ~too[i]})]]
    /\ pc' = [pc EXCEPT ![b] = "done"]
    /\ StageUnchanged
    /\ UNCHANGED <<exc, metadata, embeddings, video_ids, calls,
                   novelty_scores, PINECONE_INDEX, dataset_uploader>>

\* compute_novelty_score after the gather, and lines 220-261
ScoreReturns(b) ==
    /\ pc[b] = "querying"
    /\ DOMAIN novelty_scores[b] = 1..Len(embeddings[b].video)
    /\ LET dry == is_check_only[b]
           is_too_similar == [i \in DOMAIN novelty_scores[b] |->
                                IsTooSimilar(novelty_scores[b][i])]
           novelty_score == SumSeq(Compact(novelty_scores[b],
                                           is_too_similar))
           kept == filter_embeddings(embeddings[b], is_too_similar)
           md == Compact(metadata[b], is_too_similar)
           ids == IF ~dry THEN CompactIds(video_ids[b], is_too_similar)
                  ELSE video_ids[b]
           description_relevance_scores ==
                [i \in 1..Len(kept.video) |->
                    Cos(kept.video[i], kept.description[i])]
           query_relevance_scores ==
                [i \in 1..Len(kept.video) |->
                    Cos(kept.video[i], query_emb[b])]
           score == AggregateScore(description_relevance_scores,
                        query_relevance_scores, novelty_score, num_videos[b])
       IN  /\ embeddings' = [embeddings EXCEPT ![b] = kept]
           /\ metadata' = [metadata EXCEPT ![b] = md]
           /\ video_ids' = [video_ids EXCEPT ![b] = ids]
           /\ IF ~dry
              THEN /\ dataset_uploader' = Append(dataset_uploader,
                        [metadata |-> md,
                         video_ids |-> ids,
                         description_relevance_scores |->
                            description_relevance_scores,
                         query_relevance_scores |-> query_relevance_scores,
                         query |-> b])
                   /\ calls' = [calls EXCEPT ![b].add_videos = @ + 1]
              ELSE UNCHANGED <<dataset_uploader, calls>>
           /\ result' = [result EXCEPT ![b] =
                [kind |-> "extended",
                 is_unique |-> [i \in DOMAIN is_too_similar |->
                                    ~is_too_similar[i]],
                 description_relevance_scores |->
                    description_relevance_scores,
                 query_relevance_scores |-> query_relevance_scores,
                 novelty_score |-> novelty_score,
                 score |-> MaxScore(score, MIN_SCORE)]]
    /\ pc' = [pc EXCEPT ![b] = "done"]
    /\ StageUnchanged
    /\ UNCHANGED <<exc, novelty_scores, PINECONE_INDEX>>

NextNovelty ==
    \/ \E b \in Batches : StartNovelty(b)
    \/ \E b \in Batches : get_num_unique_videos(b)
    \/ \E b \in Batches : QueryAnswered(b)
    \/ \E b \in Batches : CountReturns(b)
    \/ \E b \in Batches : ScoreReturns(b)

SpecNovelty == InitNovelty /\ [][NextNovelty]_vars

(* ------------------------ vocabulary of the claims -------------------- *)

Punished(b) == result[b] = ShortResult(FAKE_VIDEO_PUNISHMENT)

\* some submitted item has an identifier the validity pattern rejects
Malformed(b) ==
    \E i \in 1..Len(videos[b]) : ~is_valid_id(videos[b][i].video_id)

Terminated(b) == pc[b] \in {"done", "raised"}

Attempts(b) == 1..Len(fetchLog[b])

Signalled(b, outcome) ==
    \E i \in Attempts(b) : fetchLog[b][i].outcome = outcome

\* the embedding model answered in random_check
Checked(b) == fresh[b] # NoEmbeddings

\* the loose match fails on a modality random_check has to compare
LooseMatchFails(b) ==
    /\ Checked(b)
    /\ \E f \in DOMAIN fresh[b] : ~is_similar(fresh[b][f])

\* the batch is at, in, or past a description-only run of random_check
\* for the candidate c, and has not been given a result
DescriptionOnly(b, c) ==
    /\ random_video[b] = None
    /\ random_metadata[b] = c
    /\ result[b] = NoResult
    /\ \/ pc[b] = "gpu_wait" /\ ~Checked(b)
       \/ pc[b] = "embedding" /\ ~Checked(b) /\ calls[b].embed = 1
       \/ fresh[b] \in TextEmbeddings /\ calls[b].embed = 1

\* no index query, no index write, no sink enqueue
NoIndexOrSinkCall(b) ==
    /\ calls[b].query = 0
    /\ calls[b].upsert = 0
    /\ calls[b].add_videos = 0

(* ------------------------------- claims -------------------------------- *)

\* C1: every result returned has a score >= MIN_SCORE or exactly
\* FAKE_VIDEO_PUNISHMENT, and a batch that ended got the punishment exactly
\* when an identifier is malformed, a fetch signalled fake, or the loose
\* match failed.
C1_FloorOrPunishment ==
    \A b \in Batches :
        /\ result[b] # NoResult =>
              \/ result[b].score >= MIN_SCORE
              \/ result[b].score = FAKE_VIDEO_PUNISHMENT
        /\ Terminated(b) =>
              (Punished(b) <=> \/ Malformed(b)
                               \/ Signalled(b, "fake")
                               \/ LooseMatchFails(b))

\* C2: no scoring pass ends in an unhandled error; in particular every
\* batch whose sampled item reached the authenticity check got a pass or
\* the punishment out of random_check.
C2_NeverUnhandledError ==
    \A b \in Batches : pc[b] # "raised" /\ exc[b] = None

C4_DownloadsBounded ==
    /\ Cardinality({b \in Batches : Signalled(b, "inflight")})
          <= DOWNLOAD_SEMAPHORE_CAPACITY
    /\ \A b \in Batches :
          /\ Signalled(b, "inflight") <=> "download" \in holding[b]
          /\ pc[b] = "downloading" <=> "download" \in holding[b]

\* C4 witness: five fetches are in flight, a sixth batch waits for a slot
\* and a batch whose fetch timed out has moved on.
C4_Witness ==
    /\ Cardinality({b \in Batches : pc[b] = "downloading"})
          = DOWNLOAD_SEMAPHORE_CAPACITY
    /\ \E b \in Batches : pc[b] = "dl_wait"

\* C5: once a fetch signalled fake the result is the punishment, that
\* fetch is the batch's last download attempt, and the batch never takes
\* the embedding-compute slot nor calls the index or the sink.
C5_FakeShortCircuits ==
    \A b \in Batches : \A i \in Attempts(b) :
        fetchLog[b][i].outcome = "fake" =>
            /\ i = Len(fetchLog[b])
            /\ pc[b] = "done"
            /\ Punished(b)
            /\ holding[b] = {}
            /\ calls[b] = NoCalls
            /\ ~Checked(b)

\* C5 witness: the second candidate drawn is fake while a third is still
\* in the pool.
C5_Witness ==
    \E b \in Batches :
        /\ Len(fetchLog[b]) = 2
        /\ fetchLog[b][2].outcome = "fake"
        /\ Len(metadata_copy[b]) > 0
        /\ pc[b] = "done"

\* C6: a batch on which the loose match fails on a required modality gets
\* the punishment and calls neither the index nor the sink; the index and
\* the sink are reached only after the loose match succeeded.
C6_LooseMatchGates ==
    \A b \in Batches :
        /\ LooseMatchFails(b) => Punished(b) /\ NoIndexOrSinkCall(b)
        /\ ~NoIndexOrSinkCall(b) => Checked(b) /\ ~LooseMatchFails(b)

\* C7: no candidate is fetched twice, a candidate waiting to be fetched
\* has not been fetched before, the download attempts never outnumber the
\* filtered items, and when every candidate timed out the batch goes on
\* to description-only verification of the last one, without a result.
C7_TimeoutRedraws ==
    \A b \in Batches :
        /\ \A i, j \in Attempts(b) :
              i # j => fetchLog[b][i].cand # fetchLog[b][j].cand
        /\ pc[b] = "dl_wait" =>
              \A i \in Attempts(b) : fetchLog[b][i].cand # random_metadata[b]
        /\ Len(fetchLog[b]) <= Len(metadata[b])
        /\ ( /\ Len(fetchLog[b]) = Len(metadata[b])
             /\ \A i \in Attempts(b) : fetchLog[b][i].outcome = "timeout"
             /\ check_video[b] )
           => DescriptionOnly(b, fetchLog[b][Len(fetchLog[b])].cand)

\* C7 witness: three filtered items, every one of them fetched once and
\* timed out, and the batch inside the description-only check.
C7_Witness ==
    \E b \in Batches :
        /\ Len(metadata[b]) = 3
        /\ Len(fetchLog[b]) = 3
        /\ \A i \in Attempts(b) : fetchLog[b][i].outcome = "timeout"
        /\ pc[b] = "embedding"

\* C8: a blocked fetch is the batch's last download attempt; the batch
\* goes on to description-only verification of the candidate whose fetch
\* was blocked, without a result.
C8_BlockedStopsAudit ==
    \A b \in Batches : \A i \in Attempts(b) :
        fetchLog[b][i].outcome = "blocked" =>
            /\ i = Len(fetchLog[b])
            /\ DescriptionOnly(b, fetchLog[b][i].cand)
            /\ holding[b] \subseteq {"gpu"}

\* C8 witness: the first fetch was blocked with candidates still in the
\* pool, and the batch is inside the description-only check.
C8_Witness ==
    \E b \in Batches :
        /\ Len(fetchLog[b]) = 1
        /\ fetchLog[b][1].outcome = "blocked"
        /\ Len(metadata_copy[b]) > 0
        /\ pc[b] = "embedding"

\* C9: a fetch that failed otherwise (raised another error or returned no
\* media) is the batch's last download attempt; the batch goes on to
\* description-only verification of that candidate, without a result and
\* without an error.
C9_OtherFailureFallsBack ==
    \A b \in Batches : \A i \in Attempts(b) :
        fetchLog[b][i].outcome \in {"none", "other"} =>
            /\ i = Len(fetchLog[b])
            /\ DescriptionOnly(b, fetchLog[b][i].cand)
            /\ exc[b] # "FetchError"

\* C10: a batch submitted with a malformed identifier anywhere gets the
\* punishment and makes no download attempt, no embedding invocation, no
\* index call and no sink enqueue.
C10_MalformedIdPunished ==
    \A b \in Batches :
        (pc[b] # "start" /\ Malformed(b)) =>
            /\ pc[b] = "done"
            /\ Punished(b)
            /\ fetchLog[b] = NoLog
            /\ calls[b] = NoCalls
            /\ holding[b] = {}

\* C10 witness: the only malformed identifiers belong to items the
\* duration filter or the truncation drops, and valid items survive both.
C10_Witness ==
    \E b \in Batches :
        /\ pc[b] = "done"
        /\ Malformed(b)
        /\ LET kept == Truncate(metadata_check(videos[b]), num_videos[b])
           IN  /\ Len(kept) > 0
               /\ \A i \in 1..Len(kept) : is_valid_id(kept[i].video_id)
        /\ \E i \in 1..Len(videos[b]) :
              /\ ~is_valid_id(videos[b][i].video_id)
              /\ videos[b][i].end_time = MIN_VIDEO_LENGTH
        /\ \E i \in 1..Len(videos[b]) :
              /\ ~is_valid_id(videos[b][i].video_id)
              /\ videos[b][i].end_time = MAX_VIDEO_LENGTH + 1

\* the duration of an item lies in [MIN_VIDEO_LENGTH, MAX_VIDEO_LENGTH]
InRange(v) ==
    /\ MIN_VIDEO_LENGTH <= v.end_time - v.start_time
    /\ v.end_time - v.start_time <= MAX_VIDEO_LENGTH

\* the positions of the submitted items whose duration is in range
OkIdx(vs) == {i \in 1..Len(vs) : InRange(vs[i])}

\* how many in-range items stand at or before position i
Rank(vs, i) == Cardinality({j \in OkIdx(vs) : j <= i})

\* the positions of the first n in-range items
Kept(vs, n) == {i \in OkIdx(vs) : Rank(vs, i) <= n}

\* C11: a batch of valid identifiers of which no item survives the duration
\* filter and the truncation to N (N = 0 included) ends with exactly the
\* floor score in short form, having taken neither gate and made no
\* download, embedding, index or sink call.
C11_EmptyBatchFloor ==
    \A b \in Batches :
        (pc[b] # "start" /\ ~Malformed(b) /\ Kept(videos[b], num_videos[b]) = {})
        =>  /\ pc[b] = "done"
            /\ result[b] = ShortResult(MIN_SCORE)
            /\ fetchLog[b] = NoLog
            /\ calls[b] = NoCalls
            /\ holding[b] = {}
            /\ ~Checked(b)

\* C11 witness: valid in-range items were submitted with N = 0.
C11_Witness ==
    \E b \in Batches :
        /\ pc[b] = "done"
        /\ ~Malformed(b)
        /\ num_videos[b] = 0
        /\ OkIdx(videos[b]) # {}
        /\ result[b] = ShortResult(MIN_SCORE)

\* C15: the filtered and truncated sequence is exactly the first (at most
\* N) submitted items, in input order, whose duration lies in
\* [MIN_LEN, MAX_LEN]: durations at MIN_LEN or MAX_LEN are retained,
\* durations one unit outside are dropped, never more than N items.
C15_FilterTruncates ==
    \A b \in Batches :
        (pc[b] # "start" /\ ~Malformed(b)) =>
            LET vs == videos[b]
                n == num_videos[b]
            IN  /\ Len(metadata[b]) = Cardinality(Kept(vs, n))
                /\ Len(metadata[b]) <= n
                /\ \A i \in Kept(vs, n) : metadata[b][Rank(vs, i)] = vs[i]
                /\ \A i \in 1..Len(vs) :
                      /\ (vs[i].end_time - vs[i].start_time
                            \in {MIN_VIDEO_LENGTH, MAX_VIDEO_LENGTH}
                          /\ Rank(vs, i) <= n)
                         => metadata[b][Rank(vs, i)] = vs[i]
                      /\ vs[i].end_time - vs[i].start_time
                            \in {MIN_VIDEO_LENGTH - 1, MAX_VIDEO_LENGTH + 1}
                         => i \notin Kept(vs, n)

\* C15 witness: an item one unit too short, then one exactly MIN_LEN long
\* and one exactly MAX_LEN long, with N = 1: only the second is kept.
C15_Witness ==
    \E b \in Batches :
        /\ pc[b] # "start"
        /\ Len(videos[b]) = 3
        /\ videos[b][1].end_time - videos[b][1].start_time
              = MIN_VIDEO_LENGTH - 1
        /\ videos[b][2].end_time - videos[b][2].start_time = MIN_VIDEO_LENGTH
        /\ videos[b][3].end_time - videos[b][3].start_time = MAX_VIDEO_LENGTH
        /\ num_videos[b] = 1
        /\ metadata[b] = <<videos[b][2]>>

\* the slots a batch holds are those of the guarded step it is in
HoldsOnlyInside(b) ==
    /\ ("download" \in holding[b]) <=> (pc[b] = "downloading")
    /\ ("gpu" \in holding[b]) <=> (pc[b] = "embedding")

\* whenever a batch waits for a gate, the gate has a free slot or a batch
\* that is inside the guarded step and will leave it
GatesNotStuck ==
    /\ (\E b \in Batches : pc[b] = "dl_wait")
       => (DOWNLOAD_SEMAPHORE > 0 \/ \E h \in Batches : pc[h] = "downloading")
    /\ (\E b \in Batches : pc[b] = "gpu_wait")
       => (GPU_SEMAPHORE > 0 \/ \E h \in Batches : pc[h] = "embedding")

\* a batch leaves a wait only by taking the slot it waited for
LeavesWaitByAcquiring(b) ==
    /\ (pc[b] = "dl_wait" /\ pc'[b] # "dl_wait")
       => (pc'[b] = "downloading" /\ "download" \in holding'[b])
    /\ (pc[b] = "gpu_wait" /\ pc'[b] # "gpu_wait")
       => (pc'[b] = "embedding" /\ "gpu" \in holding'[b])

\* C20: no batch holds a download slot and the embedding-compute slot at
\* once, a batch holds a slot only while it is inside the guarded step (so
\* every exit released it), the batches never block each other on the two
\* gates, and under fair scheduling every batch that waits for a slot stops
\* waiting, which it does only by acquiring the slot.
C20_GatesReleasedAndLive ==
    /\ [](\A b \in Batches :
            /\ holding[b] # {"download", "gpu"}
            /\ HoldsOnlyInside(b))
    /\ []GatesNotStuck
    /\ [][\A b \in Batches : LeavesWaitByAcquiring(b)]_vars
    /\ \A b \in 1..NumGateBatches :
            /\ []<>(pc[b] # "dl_wait")
            /\ []<>(pc[b] # "gpu_wait")

\* C20 witness: one batch is inside the embedding step and another waits
\* for that gate, a third is inside the fetch, and the first batch has left
\* the fetch by its fake-video exit and holds nothing.
C20_Witness ==
    /\ GPU_SEMAPHORE = 0
    /\ \E b \in Batches : pc[b] = "gpu_wait"
    /\ \E b \in Batches : pc[b] = "downloading" /\ holding[b] = {"download"}
    /\ Punished(FirstBatch)
    /\ Signalled(FirstBatch, "fake")
    /\ holding[FirstBatch] = {}

\* a mutating pass that is past its upload step
Uploaded(b) ==
    /\ ~is_check_only[b]
    /\ pc[b] \in {"querying", "done", "raised"}
    /\ calls[b].upsert > 0

\* the index entries written under the identifier of item i of batch b
EntriesOf(b, i) == {e \in PINECONE_INDEX : e.id = uuid4(b, i)}

\* every entry of a batch in the index belongs to a mutating pass that is
\* past its upload step and carries the vector of the item it is named for
OnlyMutatingWrites ==
    \A e \in PINECONE_INDEX :
        \/ e \in OldEntries
        \/ /\ e.id.batch \in Batches
           /\ Uploaded(e.id.batch)
           /\ e.id.item \in 1..Len(videos[e.id.batch])
           /\ e.values = videos[e.id.batch][e.id.item].video_emb

NearDuplicatePairs(vs) ==
    {p \in SUBSET (1..Len(vs)) :
        /\ Cardinality(p) = 2
        /\ \A i \in p : \A j \in p :
                Cos(vs[i].video_emb, vs[j].video_emb) > SIMILARITY_THRESHOLD}

\* every two items that are not a near-duplicate pair have similarity 0
OtherwiseDissimilar(vs) ==
    \A i \in 1..Len(vs) : \A j \in 1..Len(vs) :
        (i # j /\ {i, j} \notin NearDuplicatePairs(vs))
        => Cos(vs[i].video_emb, vs[j].video_emb) = 0

\* no index entry is similar to an item of the list
NoneInIndex(vs) ==
    \A i \in 1..Len(vs) : \A e \in PINECONE_INDEX :
        Cos(e.values, vs[i].video_emb) <= SIMILARITY_THRESHOLD

\* C13: for a batch of N items none of which is in the index,
\* get_num_unique_videos returns N when the items are pairwise dissimilar
\* and N-1 when exactly one pair of them is a near-duplicate pair.
C13_DiagnosticCount ==
    \A b \in Batches :
        (/\ pc[b] = "done"
         /\ result[b].kind = "count"
         /\ NoneInIndex(videos[b])
         /\ OtherwiseDissimilar(videos[b]))
        =>  /\ NearDuplicatePairs(videos[b]) = {}
               => result[b].count = Len(videos[b])
            /\ Cardinality(NearDuplicatePairs(videos[b])) = 1
               => result[b].count = Len(videos[b]) - 1

\* the upsert of a mutating pass failed: the pass is past its upload step
\* and none of its items is in the index
UpsertFailed(b) ==
    /\ Uploaded(b)
    /\ \A i \in 1..Len(videos[b]) : EntriesOf(b, i) = {}

\* the add_videos calls the sink received from batch b
Enqueued(b) ==
    {k \in 1..Len(dataset_uploader) : dataset_uploader[k].query = b}

Completed(b) == pc[b] = "done" /\ result[b].kind = "extended"

\* the positions of the filtered items of b whose novelty is at least the
\* threshold
Unflagged(b) ==
    {i \in 1..Len(videos[b]) : novelty_scores[b][i] >= DIFFERENCE_THRESHOLD}

\* how many unflagged items stand at or before position i
RankUnflagged(b, i) == Cardinality({j \in Unflagged(b) : j <= i})

\* C16: for every filtered item of a batch that went through the novelty
\* stage, the item is flagged too-similar exactly when its novelty is below
\* 0.05 (exactly 0.05 is not flagged); a flagged item has is_unique false,
\* adds nothing to the novelty total and has no entry in the relevance
\* sequences; is_unique has one entry per filtered item and each relevance
\* sequence one entry per unflagged item, in the original order.
C16_FlaggedExcluded ==
    \A b \in Batches :
        Completed(b) =>
            LET r == result[b]
                vs == videos[b]
            IN  /\ DOMAIN r.is_unique = 1..Len(vs)
                /\ \A i \in 1..Len(vs) :
                    /\ ~r.is_unique[i]
                       <=> novelty_scores[b][i] < DIFFERENCE_THRESHOLD
                    /\ novelty_scores[b][i] = DIFFERENCE_THRESHOLD
                       => r.is_unique[i]
                /\ r.novelty_score =
                    SumSeq([i \in 1..Len(vs) |->
                        IF i \in Unflagged(b) THEN novelty_scores[b][i]
                        ELSE 0])
                /\ Len(r.description_relevance_scores)
                    = Cardinality(Unflagged(b))
                /\ Len(r.query_relevance_scores)
                    = Cardinality(Unflagged(b))
                /\ \A i \in Unflagged(b) :
                    /\ r.description_relevance_scores[RankUnflagged(b, i)]
                        = Cos(vs[i].video_emb, vs[i].description_emb)
                    /\ r.query_relevance_scores[RankUnflagged(b, i)]
                        = Cos(vs[i].video_emb, query_emb[b])

\* C16 witness: a completed batch with an item of novelty 0.049, flagged,
\* before an item of novelty exactly 0.05, not flagged.
C16_Witness ==
    \E b \in Batches :
        /\ Completed(b)
        /\ Len(videos[b]) = 2
        /\ novelty_scores[b][1] = DIFFERENCE_THRESHOLD - 1
        /\ ~result[b].is_unique[1]
        /\ novelty_scores[b][2] = DIFFERENCE_THRESHOLD
        /\ result[b].is_unique[2]
        /\ Len(result[b].query_relevance_scores) = 1

\* C17: the score of a batch that completes is
\* max(floor, (sum of description relevance + sum of query relevance
\* + novelty total) / 3 / N), N being the requested count.
C17_ScoreFormula ==
    \A b \in Batches :
        Completed(b) =>
            LET r == result[b]
                total == SumSeq(r.description_relevance_scores)
                         + SumSeq(r.query_relevance_scores)
                         + r.novelty_score
                n == num_videos[b]
            IN  IF total < MIN_SCORE * 3 * n
                THEN r.score.num = MIN_SCORE * r.score.den
                ELSE r.score.num * 3 * n = total * r.score.den

\* C17 witness: N = 3 requested, two survivors, relevance sums 0.8 and 0.6
\* and novelty total 1.2: the score is 2.6 / 9.
C17_Witness ==
    \E b \in Batches :
        /\ Completed(b)
        /\ num_videos[b] = 3
        /\ Len(result[b].description_relevance_scores) = 2
        /\ SumSeq(result[b].description_relevance_scores) = 800
        /\ SumSeq(result[b].query_relevance_scores) = 600
        /\ result[b].novelty_score = 1200
        /\ result[b].score.num * 9 = 2600 * result[b].score.den

SameItem(q, j, b, i) ==
    /\ q.metadata[j] = videos[b][i]
    /\ q.video_ids[j] = uuid4(b, i)
    /\ q.description_relevance_scores[j]
        = Cos(videos[b][i].video_emb, videos[b][i].description_emb)
    /\ q.query_relevance_scores[j]
        = Cos(videos[b][i].video_emb, query_emb[b])

Nearest(entries, vector) ==
    CHOOSE sc \in {Cos(e.values, vector) : e \in entries} :
        \A e \in entries : Cos(e.values, vector) <= sc

====
